---- MODULE Spec2Model ----
(***************************************************************************)
(* Model of candidate_solution.py: the SQLite store with its five tables,  *)
(* clean_database (one transaction of thirteen statements), the program's  *)
(* start-up (connect, clean, serve) and the five HTTP handlers.            *)
(*                                                                         *)
(* Names are sequences of one-character strings so that UPPER, LOWER,      *)
(* substr, split and capitalize are computed character by character.       *)
(* The tables carry no UNIQUE constraint: the seed data the cleaning       *)
(* pass is written for holds duplicate names.                              *)
(***************************************************************************)
EXTENDS Integers, Sequences, FiniteSets, TLC

VARIABLES
    db,            \* the committed rows of the five tables
    dbBefore,      \* the committed rows when clean_database was last called
    cleanOutcome,  \* how the last call of clean_database ended
    wasClean,      \* the dataset given to that call came from a committed pass
    isClean,       \* db is the product of a committed pass
    phase,         \* position of the __main__ block
    reqs           \* the HTTP requests in flight, one per worker slot

vars == <<db, dbBefore, cleanOutcome, wasClean, isClean, phase, reqs>>

-----------------------------------------------------------------------------
(* Bounds of the seeded datasets and of the request load.                  *)

MaxTypes == 2
MaxPokemon == 2
MaxAbilities == 2
MaxTrainers == 2
MaxTpa == 2
NumSlots == 2

-----------------------------------------------------------------------------
(* Text.                                                                   *)

NULL == <<"<NULL>">>
NoId == 0

LowerAlpha == <<"a","b","c","d","e","f","g","h","i","j","k","l","m",
                "n","o","p","q","r","s","t","u","v","w","x","y","z">>
UpperAlpha == <<"A","B","C","D","E","F","G","H","I","J","K","L","M",
                "N","O","P","Q","R","S","T","U","V","W","X","Y","Z">>

UpperCh(c) ==
    IF \E i \in DOMAIN LowerAlpha : LowerAlpha[i] = c
    THEN UpperAlpha[CHOOSE i \in DOMAIN LowerAlpha : LowerAlpha[i] = c]
    ELSE c

LowerCh(c) ==
    IF \E i \in DOMAIN UpperAlpha : UpperAlpha[i] = c
    THEN LowerAlpha[CHOOSE i \in DOMAIN UpperAlpha : UpperAlpha[i] = c]
    ELSE c

RECURSIVE UpperStr(_)
UpperStr(s) == IF s = <<>> THEN <<>> ELSE <<UpperCh(Head(s))>> \o UpperStr(Tail(s))

RECURSIVE LowerStr(_)
LowerStr(s) == IF s = <<>> THEN <<>> ELSE <<LowerCh(Head(s))>> \o LowerStr(Tail(s))

\* SQL UPPER(x), LOWER(x), substr(x, 1, 1), substr(x, 2) and x || y: NULL in, NULL out.
SqlUpper(x) == IF x = NULL THEN NULL ELSE UpperStr(x)
SqlLower(x) == IF x = NULL THEN NULL ELSE LowerStr(x)
SqlFirst(x) == IF x = NULL THEN NULL ELSE IF x = <<>> THEN <<>> ELSE <<Head(x)>>
SqlRest(x) == IF x = NULL THEN NULL ELSE IF x = <<>> THEN <<>> ELSE Tail(x)
SqlConcat(x, y) == IF x = NULL \/ y = NULL THEN NULL ELSE x \o y

\* substr(UPPER(name), 1, 1) || LOWER(substr(name, 2))
SqlTitle(name) == SqlConcat(SqlFirst(SqlUpper(name)), SqlLower(SqlRest(name)))

\* SQL "a = b": never true of a NULL.
SqlEq(a, b) == a # NULL /\ b # NULL /\ a = b

\* SQL "a = b COLLATE NOCASE"
SqlEqNoCase(a, b) == a # NULL /\ b # NULL /\ LowerStr(a) = LowerStr(b)

\* Python str.capitalize()
PyCapitalize(s) == IF s = <<>> THEN <<>> ELSE <<UpperCh(Head(s))>> \o LowerStr(Tail(s))

\* Python s.split('-'): a sequence of the parts.
RECURSIVE PySplit(_)
PySplit(s) ==
    IF \A i \in DOMAIN s : s[i] # "-"
    THEN <<s>>
    ELSE LET k == CHOOSE i \in DOMAIN s :
                      s[i] = "-" /\ \A j \in 1..(i - 1) : s[j] # "-"
         IN <<SubSeq(s, 1, k - 1)>> \o PySplit(SubSeq(s, k + 1, Len(s)))

\* Python '-'.join(parts)
RECURSIVE PyJoin(_)
PyJoin(parts) ==
    IF Len(parts) = 1 THEN parts[1]
    ELSE parts[1] \o <<"-">> \o PyJoin(Tail(parts))

RECURSIVE MapCapitalize(_)
MapCapitalize(parts) ==
    IF parts = <<>> THEN <<>>
    ELSE <<PyCapitalize(Head(parts))>> \o MapCapitalize(Tail(parts))

\* '-'.join(part.capitalize() for part in ability_name.split('-'))
AbilityTitle(name) == PyJoin(MapCapitalize(PySplit(name)))

-----------------------------------------------------------------------------
(* The names the seed data, the correction tables and the requests use.    *)

S_wATER == <<"w","A","T","E","R">>
S_Water == <<"W","a","t","e","r">>
S_fire == <<"f","i","r","e">>
S_static == <<"s","t","a","t","i","c">>
S_Static == <<"S","t","a","t","i","c">>
S_gras == <<"g","r","a","s">>
S_Grass == <<"G","r","a","s","s">>
S_overgrow == <<"o","v","e","r","g","r","o","w">>
S_Overgrow == <<"O","v","e","r","g","r","o","w">>
S_Torrent == <<"T","o","r","r","e","n","t">>
S_solar_power == <<"s","o","l","a","r","-","p","o","w","e","r">>
S_Sentinel == <<"R","e","m","o","v","e"," ","t","h","i","s"," ",
                "a","b","i","l","i","t","y">>
S_misty == <<"m","i","s","t","y">>
S_Misty == <<"M","i","s","t","y">>
S_Empty == <<>>
S_Pikuchu == <<"P","i","k","u","c","h","u">>
S_Pikachu == <<"P","i","k","a","c","h","u">>
S_Charmanderr == <<"C","h","a","r","m","a","n","d","e","r","r">>
S_Charmander == <<"C","h","a","r","m","a","n","d","e","r">>
S_Bulbasuar == <<"B","u","l","b","a","s","u","a","r">>
S_Bulbasaur == <<"B","u","l","b","a","s","a","u","r">>
S_RATtata == <<"R","A","T","t","a","t","a">>
S_Rattata == <<"R","a","t","t","a","t","a">>
S_raichu == <<"r","a","i","c","h","u">>
S_missingno == <<"m","i","s","s","i","n","g","n","o">>
S_electric == <<"e","l","e","c","t","r","i","c">>
S_lightning_rod == <<"l","i","g","h","t","n","i","n","g","-","r","o","d">>

-----------------------------------------------------------------------------
(* The store.  A dataset is a record of five row-sets; ids are the primary *)
(* keys.  NoId stands for a NULL reference.                                *)

NameKey(r) == r.name
PokemonKey(r) == <<r.name, r.type1_id, r.type2_id>>
TpaKey(r) == <<r.trainer_id, r.pokemon_id, r.ability_id>>

\* DELETE FROM t WHERE id NOT IN (SELECT MIN(id) FROM t GROUP BY key)
\* GROUP BY compares exactly (BINARY collation) and puts NULLs in one group.
\* key maps each row to its GROUP BY columns.
KeepMinId(rows, key) ==
    {r \in rows : \A q \in rows : key[q] = key[r] => q.id >= r.id}

DedupAbilities(d) == [d EXCEPT !.abilities = KeepMinId(@, [r \in @ |-> NameKey(r)])]
DedupPokemon(d) == [d EXCEPT !.pokemon = KeepMinId(@, [r \in @ |-> PokemonKey(r)])]
DedupTpa(d) == [d EXCEPT !.tpa = KeepMinId(@, [r \in @ |-> TpaKey(r)])]
DedupTrainers(d) == [d EXCEPT !.trainers = KeepMinId(@, [r \in @ |-> NameKey(r)])]
DedupTypes(d) == [d EXCEPT !.types = KeepMinId(@, [r \in @ |-> NameKey(r)])]

\* DELETE FROM abilities WHERE name = 'Remove this ability'
DeleteSentinelAbility(d) ==
    [d EXCEPT !.abilities = {r \in @ : ~SqlEq(r.name, S_Sentinel)}]

\* UPDATE types SET name = CASE WHEN name IS NOT NULL THEN <title> ELSE name END
TitleCaseTypes(d) ==
    [d EXCEPT !.types =
        {[r EXCEPT !.name = IF r.name # NULL THEN SqlTitle(r.name) ELSE r.name] : r \in @}]

AbilityCorrection(name) ==
    CASE SqlEq(name, S_static) -> S_Static
      [] SqlEq(name, S_gras) -> S_Grass
      [] SqlEq(name, S_overgrow) -> S_Overgrow
      [] SqlEq(name, S_Torrent) -> S_Torrent
      [] OTHER -> name

CorrectAbilities(d) ==
    [d EXCEPT !.abilities = {[r EXCEPT !.name = AbilityCorrection(r.name)] : r \in @}]

\* (SELECT name FROM types WHERE id = type2_id): NULL when no such row.
TypeNameOf(types, id) ==
    IF \E t \in types : t.id = id
    THEN (CHOOSE t \in types : t.id = id).name
    ELSE NULL

\* The rows of (SELECT t.id FROM types t WHERE t.name = <title of the referenced name>)
RepointMatches(types, type2_id) ==
    {t.id : t \in {u \in types : SqlEq(u.name, SqlTitle(TypeNameOf(types, type2_id)))}}

\* A scalar subquery yields the first row of its result, and with no ORDER BY
\* the order is the store's choice: pick says which row comes first, per name.
RepointPicks(types) ==
    LET names == {t.name : t \in types} \ {NULL}
        ids == {t.id : t \in types}
    IN {f \in [names -> ids] :
            \A n \in names : \E t \in types : t.id = f[n] /\ t.name = n}

\* The slip of taking identifiers to be stable: the reference is kept as it is.
RepointTargetKept(types, type2_id, pick) == type2_id

RepointTarget(types, type2_id, pick) ==
    IF RepointMatches(types, type2_id) = {}
    THEN NoId
    ELSE pick[SqlTitle(TypeNameOf(types, type2_id))]

\* UPDATE pokemon SET type2_id = (SELECT ...) WHERE type2_id IS NOT NULL
RepointType2(d, pick) ==
    [d EXCEPT !.pokemon =
        {[p EXCEPT !.type2_id =
              IF p.type2_id # NoId THEN RepointTarget(d.types, p.type2_id, pick)
              ELSE p.type2_id] : p \in @}]

TrainerCorrection(name) == IF SqlEq(name, S_misty) THEN S_Misty ELSE name

CorrectTrainers(d) ==
    [d EXCEPT !.trainers = {[r EXCEPT !.name = TrainerCorrection(r.name)] : r \in @}]

\* DELETE FROM trainers WHERE name = '' OR name IS NULL
DeleteEmptyTrainers(d) ==
    [d EXCEPT !.trainers = {r \in @ : ~(SqlEq(r.name, S_Empty) \/ r.name = NULL)}]

PokemonCorrection(name) ==
    CASE SqlEq(name, S_Pikuchu) -> S_Pikachu
      [] SqlEq(name, S_Charmanderr) -> S_Charmander
      [] SqlEq(name, S_Bulbasuar) -> S_Bulbasaur
      [] SqlEq(name, S_RATtata) -> S_Rattata
      [] OTHER -> name

CorrectPokemon(d) ==
    [d EXCEPT !.pokemon = {[r EXCEPT !.name = PokemonCorrection(r.name)] : r \in @}]

\* SELECT id, name FROM abilities WHERE name IS NOT NULL, then one UPDATE per
\* row whose title-cased name differs.
TitleCaseAbilities(d) ==
    [d EXCEPT !.abilities =
        {[r EXCEPT !.name = IF r.name # NULL THEN AbilityTitle(r.name) ELSE r.name] : r \in @}]

\* The statements of clean_database in the order the code runs them.
Statements == 1..13

Statement(i, d, pick) ==
    CASE i = 1 -> DedupAbilities(d)
      [] i = 2 -> DedupPokemon(d)
      [] i = 3 -> DedupTpa(d)
      [] i = 4 -> DedupTrainers(d)
      [] i = 5 -> DedupTypes(d)
      [] i = 6 -> DeleteSentinelAbility(d)
      [] i = 7 -> TitleCaseTypes(d)
      [] i = 8 -> CorrectAbilities(d)
      [] i = 9 -> RepointType2(d, pick)
      [] i = 10 -> CorrectTrainers(d)
      [] i = 11 -> DeleteEmptyTrainers(d)
      [] i = 12 -> CorrectPokemon(d)
      [] i = 13 -> TitleCaseAbilities(d)

\* The transaction's view after the first k statements.
RECURSIVE RunStatements(_, _, _)
RunStatements(d, k, pick) ==
    IF k = 0 THEN d ELSE Statement(k, RunStatements(d, k - 1, pick), pick)

\* The type names are final after statement 7; the picks range over them.
CleanPicks(d) == RepointPicks(RunStatements(d, 7, <<>>).types)

\* conn.commit(): the transaction's view becomes the stored rows.
Commit(stored, view) == view

\* conn.rollback(): the stored rows stay as they were, whichever of the views
\* the transaction held.
Rollback(stored, views) == stored

-----------------------------------------------------------------------------
(* The seeded datasets.  The loader is external; a seed is any dataset of  *)
(* the shapes below: rows with ids 1..n, names drawn from the names the    *)
(* cleaning pass is written for.                                           *)

TypeNames == {S_wATER, S_Water, S_fire}
AbilityNames == {S_static, S_Static, S_gras, S_solar_power, S_Sentinel}
TrainerNames == {S_misty, S_Misty, S_Empty, NULL}
PokemonNames == {S_Pikuchu, S_Pikachu, S_RATtata}

NamedTable(f) == {[id |-> i, name |-> f[i]] : i \in DOMAIN f}

PokemonTable(f) ==
    {[id |-> i, name |-> f[i][1], type1_id |-> f[i][2], type2_id |-> f[i][3]] :
        i \in DOMAIN f}

TpaTable(f) ==
    {[id |-> i, trainer_id |-> f[i][1], pokemon_id |-> f[i][2], ability_id |-> f[i][3]] :
        i \in DOMAIN f}

Dataset(ty, ab, tr, po, tp) ==
    [types |-> ty, abilities |-> ab, trainers |-> tr, pokemon |-> po, tpa |-> tp]

BaseTypes == {[id |-> 1, name |-> S_Water]}
BaseAbilities == {[id |-> 1, name |-> S_static]}
BaseTrainers == {[id |-> 1, name |-> S_misty]}
BasePokemon == {[id |-> 1, name |-> S_Pikuchu, type1_id |-> 1, type2_id |-> NoId]}
BaseTpa == {[id |-> 1, trainer_id |-> 1, pokemon_id |-> 1, ability_id |-> 1]}

\* Types and the creatures' references to them.
SeedTypes(d) ==
    \E nt \in 1..MaxTypes : \E np \in 1..MaxPokemon :
    \E tf \in [1..nt -> TypeNames] :
    \E pf \in [1..np -> {S_Pikuchu} \X (1..nt) \X ({NoId} \cup 1..nt)] :
        d = Dataset(NamedTable(tf), BaseAbilities, BaseTrainers, PokemonTable(pf), BaseTpa)

\* Abilities and the join rows that grant them.
SeedAbilities(d) ==
    \E na \in 1..MaxAbilities : \E nj \in 0..MaxTpa :
    \E af \in [1..na -> AbilityNames] :
    \E jf \in [1..nj -> {1} \X {1} \X (1..na)] :
        d = Dataset(BaseTypes, NamedTable(af), BaseTrainers, BasePokemon, TpaTable(jf))

\* Trainers and the join rows that name them.
SeedTrainers(d) ==
    \E nr \in 0..MaxTrainers : \E nj \in 0..MaxTpa :
    \E rf \in [1..nr -> TrainerNames] :
    \E jf \in [1..nj -> (1..nr) \X {1} \X {1}] :
        d = Dataset(BaseTypes, BaseAbilities, NamedTable(rf), BasePokemon, TpaTable(jf))

\* Types without a name and second-type references to rows that are not
\* there: the store enforces neither NOT NULL nor a foreign key.
SeedOddReferences(d) ==
    \E nt \in 1..MaxTypes : \E np \in 1..MaxPokemon :
    \E tf \in [1..nt -> {S_Water, NULL}] :
    \E pf \in [1..np -> {S_Pikuchu} \X {1} \X (1..(MaxTypes + 1))] :
        d = Dataset(NamedTable(tf), BaseAbilities, BaseTrainers, PokemonTable(pf), BaseTpa)

\* Creature names.
SeedPokemon(d) ==
    \E np \in 1..MaxPokemon :
    \E pf \in [1..np -> PokemonNames \X {1} \X {NoId, 1}] :
        d = Dataset(BaseTypes, BaseAbilities, BaseTrainers, PokemonTable(pf), BaseTpa)

\* The datasets the served program is started on.
ProgramSeeds ==
    {Dataset(ty, BaseAbilities, tr, BasePokemon, tp) :
        ty \in {BaseTypes, {[id |-> 1, name |-> S_wATER], [id |-> 2, name |-> S_Water]}},
        tr \in {{}, BaseTrainers},
        tp \in {{}}}
    \cup {Dataset(BaseTypes, BaseAbilities, BaseTrainers, BasePokemon, BaseTpa)}

-----------------------------------------------------------------------------
(* clean_database(conn).                                                   *)

\* The try block runs to conn.commit().
CleanCommitted ==
    \E pick \in CleanPicks(db) :
        /\ db' = Commit(db, RunStatements(db, 13, pick))
        /\ dbBefore' = db
        /\ cleanOutcome' = "committed"
        /\ wasClean' = isClean
        /\ isClean' = TRUE

\* The views the transaction may hold when a statement, or the commit, raises.
PartialViews(d) ==
    {RunStatements(d, k - 1, pick) : k \in 1..14, pick \in CleanPicks(d)}

\* A statement, or the commit, raises sqlite3.Error: the except branch prints
\* the error, rolls back whatever the view was, and the function returns None
\* like a successful call.
CleanRolledBack ==
    /\ db' = Rollback(db, PartialViews(db))
    /\ dbBefore' = db
    /\ cleanOutcome' = "rolled_back"
    /\ wasClean' = isClean
    /\ UNCHANGED isClean

-----------------------------------------------------------------------------
(* The HTTP handlers.                                                      *)

Slots == 1..NumSlots
ReadKinds == {"by_ability", "by_type", "trainers_by_pokemon", "abilities_by_pokemon"}
Kinds == ReadKinds \cup {"ingest"}
RequestNames == {S_Pikachu, S_raichu, S_missingno}

NoResponse == [status |-> 0, detail |-> "", items |-> <<>>]
Idle == [pc |-> "idle", kind |-> "none", name |-> <<>>, opened |-> FALSE,
         response |-> NoResponse, dbAtStart |-> Dataset({}, {}, {}, {}, {})]

\* raise HTTPException(status_code=500, detail="Database connection error.")
ConnectionErrorResponse ==
    [status |-> 500, detail |-> "Database connection error.", items |-> <<>>]

\* "with conn.cursor() as cursor:" in a read handler.  sqlite3.Cursor has no
\* __enter__/__exit__, so the statement raises TypeError before any query
\* runs; nothing catches it and the framework answers 500.
ReadCursorResponse(d, name) ==
    [status |-> 500, detail |-> "Internal Server Error", items |-> <<>>]

\* The same statement in add_trainer_pokemon_abilities: "except Exception"
\* catches the TypeError and raises HTTPException(500, "Internal server error.").
IngestCursorResponse(d, name) ==
    [status |-> 500, detail |-> "Internal server error.", items |-> <<>>]

\* The rows the handler has written when "with conn:" exits: it exits by the
\* TypeError, so it rolls back, and no statement had run.
HandlerWrites(d, kind, name) == d

\* A request is routed to its handler.
Arrive(s) ==
    /\ phase = "serving"
    /\ reqs[s].pc = "idle"
    /\ \E kind \in Kinds : \E name \in RequestNames :
          reqs' = [reqs EXCEPT ![s] =
                     [Idle EXCEPT !.pc = "connect", !.kind = kind, !.name = name,
                                  !.dbAtStart = db]]
    /\ UNCHANGED <<db, dbBefore, cleanOutcome, wasClean, isClean, phase>>

\* connect_db() returns a connection.
ConnectOk(s) ==
    /\ reqs[s].pc = "connect"
    /\ reqs' = [reqs EXCEPT ![s].pc = "with_conn", ![s].opened = TRUE]
    /\ UNCHANGED <<db, dbBefore, cleanOutcome, wasClean, isClean, phase>>

\* connect_db() returns None (the file is missing, or sqlite3.connect raised).
ConnectFail(s) ==
    /\ reqs[s].pc = "connect"
    /\ reqs' = [reqs EXCEPT ![s].pc = "done", ![s].response = ConnectionErrorResponse]
    /\ UNCHANGED <<db, dbBefore, cleanOutcome, wasClean, isClean, phase>>

\* "with conn:" then "with conn.cursor() as cursor:" in a read handler.
ReadBody(s) ==
    /\ reqs[s].pc = "with_conn"
    /\ reqs[s].kind \in ReadKinds
    /\ reqs' = [reqs EXCEPT ![s].pc = "done",
                            ![s].response = ReadCursorResponse(db, reqs[s].name)]
    /\ db' = HandlerWrites(db, reqs[s].kind, reqs[s].name)
    /\ UNCHANGED <<dbBefore, cleanOutcome, wasClean, isClean, phase>>

\* The same two statements in add_trainer_pokemon_abilities.
IngestBody(s) ==
    /\ reqs[s].pc = "with_conn"
    /\ reqs[s].kind = "ingest"
    /\ reqs' = [reqs EXCEPT ![s].pc = "done",
                            ![s].response = IngestCursorResponse(db, reqs[s].name)]
    /\ db' = HandlerWrites(db, reqs[s].kind, reqs[s].name)
    /\ UNCHANGED <<dbBefore, cleanOutcome, wasClean, isClean, phase>>

\* The response is sent and the worker is free again.
Respond(s) ==
    /\ reqs[s].pc = "done"
    /\ reqs' = [reqs EXCEPT ![s] = Idle]
    /\ UNCHANGED <<db, dbBefore, cleanOutcome, wasClean, isClean, phase>>

\* requests.get(f"https://pokeapi.co/api/v2/pokemon/{pokemon_name}") and the
\* fields the handler takes from the answer: what the lookup service holds.
PokeApi(name) ==
    IF name = S_raichu
    THEN [found |-> TRUE, types |-> <<S_electric>>,
          abilities |-> <<S_static, S_lightning_rod>>]
    ELSE [found |-> FALSE, types |-> <<>>, abilities |-> <<>>]

\* The rows each read handler's SELECT matches.
RowsByAbility(d, name) ==
    {x \in d.pokemon \X d.tpa \X d.abilities :
        /\ x[1].id = x[2].pokemon_id
        /\ x[2].ability_id = x[3].id
        /\ SqlEqNoCase(x[3].name, name)}

RowsByType(d, name) ==
    {x \in d.pokemon \X d.types :
        /\ x[1].type1_id = x[2].id
        /\ \/ SqlEqNoCase(x[2].name, name)
           \/ \E t2 \in d.types : x[1].type2_id = t2.id /\ SqlEqNoCase(t2.name, name)}

RowsTrainersByPokemon(d, name) ==
    {x \in d.trainers \X d.tpa \X d.pokemon :
        /\ x[1].id = x[2].trainer_id
        /\ x[2].pokemon_id = x[3].id
        /\ SqlEq(x[3].name, name)}

RowsAbilitiesByPokemon(d, name) ==
    {x \in d.abilities \X d.tpa \X d.pokemon :
        /\ x[1].id = x[2].ability_id
        /\ x[2].pokemon_id = x[3].id
        /\ SqlEqNoCase(x[3].name, name)}

MatchingRows(d, kind, name) ==
    CASE kind = "by_ability" -> RowsByAbility(d, name)
      [] kind = "by_type" -> RowsByType(d, name)
      [] kind = "trainers_by_pokemon" -> RowsTrainersByPokemon(d, name)
      [] kind = "abilities_by_pokemon" -> RowsAbilitiesByPokemon(d, name)

-----------------------------------------------------------------------------
(* The __main__ block.                                                     *)

\* temp_conn is None: cleaning is skipped.
MainConnectFail ==
    /\ phase = "boot"
    /\ phase' = "start_app"
    /\ UNCHANGED <<db, dbBefore, cleanOutcome, wasClean, isClean, reqs>>

MainCleanCommitted ==
    /\ phase = "boot"
    /\ CleanCommitted
    /\ phase' = "start_app"
    /\ UNCHANGED reqs

\* clean_database returned after its except branch; main goes on.
MainCleanRolledBack ==
    /\ phase = "boot"
    /\ CleanRolledBack
    /\ phase' = "start_app"
    /\ UNCHANGED reqs

\* create_fastapi_app() and uvicorn.run(...)
MainServe ==
    /\ phase = "start_app"
    /\ phase' = "serving"
    /\ UNCHANGED <<db, dbBefore, cleanOutcome, wasClean, isClean, reqs>>

Init ==
    /\ db \in ProgramSeeds
    /\ dbBefore = db
    /\ cleanOutcome = "none"
    /\ wasClean = FALSE
    /\ isClean = FALSE
    /\ phase = "boot"
    /\ reqs = [s \in Slots |-> Idle]

Next ==
    \/ MainConnectFail
    \/ MainCleanCommitted
    \/ MainCleanRolledBack
    \/ MainServe
    \/ \E s \in Slots : Arrive(s)
    \/ \E s \in Slots : ConnectOk(s)
    \/ \E s \in Slots : ConnectFail(s)
    \/ \E s \in Slots : ReadBody(s)
    \/ \E s \in Slots : IngestBody(s)
    \/ \E s \in Slots : Respond(s)

Spec == Init /\ [][Next]_vars

-----------------------------------------------------------------------------
(* clean_database called again and again on one store, from any seed.      *)

CallCleanCommitted == CleanCommitted /\ UNCHANGED <<phase, reqs>>

CallCleanRolledBack == CleanRolledBack /\ UNCHANGED <<phase, reqs>>

InitClean ==
    /\ \/ SeedTypes(db)
       \/ SeedAbilities(db)
       \/ SeedTrainers(db)
       \/ SeedPokemon(db)
       \/ SeedOddReferences(db)
    /\ dbBefore = db
    /\ cleanOutcome = "none"
    /\ wasClean = FALSE
    /\ isClean = FALSE
    /\ phase = "boot"
    /\ reqs = [s \in Slots |-> Idle]

NextClean == CallCleanCommitted \/ CallCleanRolledBack

SpecClean == InitClean /\ [][NextClean]_vars

-----------------------------------------------------------------------------
(* Properties.                                                             *)

Range(seq) == {seq[i] : i \in DOMAIN seq}

\* No two rows carry the same name up to letter case.
UniqueNames(rows) ==
    \A r \in rows : \A q \in rows : r.id # q.id => ~SqlEqNoCase(r.name, q.name)

UniqueKeys(rows, key) ==
    \A r \in rows : \A q \in rows : r.id # q.id => key[r] # key[q]

Stored(d, name) == \E p \in d.pokemon : SqlEq(p.name, name)

IngestDone(s) ==
    reqs[s].pc = "done" /\ reqs[s].kind = "ingest" /\ reqs[s].opened

\* C1: once clean_database has committed, no two Type, Ability or Trainer rows
\* share a case-normalized name, no two Creature rows share (name, type1_id,
\* type2_id) and no two join rows share (trainer_id, pokemon_id, ability_id).
C1_UniqueAfterClean ==
    cleanOutcome = "committed" =>
        /\ UniqueNames(db.types)
        /\ UniqueNames(db.abilities)
        /\ UniqueNames(db.trainers)
        /\ UniqueKeys(db.pokemon, [r \in db.pokemon |-> PokemonKey(r)])
        /\ UniqueKeys(db.tpa, [r \in db.tpa |-> TpaKey(r)])

\* C2: a committed pass over a dataset that a committed pass produced leaves
\* all five row-sets as they were.
C2_Idempotent ==
    (cleanOutcome = "committed" /\ wasClean) => db = dbBefore

\* C3: an ingest of a name that a Creature row already carries answers 400
\* and leaves the five row-sets as they were when the request arrived.
C3_AlreadyExists ==
    \A s \in Slots :
        (IngestDone(s) /\ Stored(reqs[s].dbAtStart, reqs[s].name)) =>
            /\ reqs[s].response.status = 400
            /\ db = reqs[s].dbAtStart

\* C4: an ingest of a name that is not stored and that the lookup service does
\* not know answers 404 and leaves the five row-sets as they were.
C4_NotFound ==
    \A s \in Slots :
        (/\ IngestDone(s)
         /\ ~Stored(reqs[s].dbAtStart, reqs[s].name)
         /\ ~PokeApi(reqs[s].name).found) =>
            /\ reqs[s].response.status = 404
            /\ db = reqs[s].dbAtStart

\* C5: an ingest of a name that is not stored, that the lookup service knows
\* with one or two types and at least one ability, while a Trainer row exists,
\* answers 200 and has created one Creature row, one Type row per returned type
\* that had none, one Ability row per returned ability that had none and one
\* join row per returned ability, whose ids are the non-empty inserted_ids.
C5_IngestCreates ==
    \A s \in Slots :
        LET r == reqs[s]
            api == PokeApi(r.name)
            before == r.dbAtStart
            newJoin == db.tpa \ before.tpa
        IN (/\ IngestDone(s)
            /\ ~Stored(before, r.name)
            /\ api.found
            /\ Len(api.types) \in 1..2
            /\ api.abilities # <<>>
            /\ before.trainers # {}) =>
               /\ r.response.status = 200
               /\ Cardinality(db.pokemon \ before.pokemon) = 1
               /\ \A p \in db.pokemon \ before.pokemon : p.name = r.name
               /\ Cardinality(db.types \ before.types) =
                     Cardinality({n \in Range(api.types) :
                                     ~\E t \in before.types : SqlEq(t.name, n)})
               /\ Cardinality(db.abilities \ before.abilities) =
                     Cardinality({n \in Range(api.abilities) :
                                     ~\E a \in before.abilities : SqlEq(a.name, n)})
               /\ Cardinality(newJoin) = Cardinality(Range(api.abilities))
               /\ r.response.items # <<>>
               /\ Range(r.response.items) = {j.id : j \in newJoin}

\* C6: in every state of the served program after a committed cleaning pass,
\* whatever ingests have run, no two Type rows and no two Ability rows share a
\* case-normalized name.
C6_NamesUniqueWhileServing ==
    (cleanOutcome = "committed" /\ phase = "serving") =>
        UniqueNames(db.types) /\ UniqueNames(db.abilities)

\* C7: a read request whose connection opened and whose query matches no row
\* answers 200 with an empty list.
C7_EmptyListNotError ==
    \A s \in Slots :
        (/\ reqs[s].pc = "done"
         /\ reqs[s].kind \in ReadKinds
         /\ reqs[s].opened
         /\ MatchingRows(reqs[s].dbAtStart, reqs[s].kind, reqs[s].name) = {}) =>
            /\ reqs[s].response.status = 200
            /\ reqs[s].response.items = <<>>

\* C8: of two concurrent ingests of one name that is not stored and that the
\* lookup service knows, one ends with AlreadyExists (400), and the store never
\* holds two Creature rows of that name.
C8_OneIngestWins ==
    \A s \in Slots : \A t \in Slots :
        (/\ s # t
         /\ IngestDone(s) /\ IngestDone(t)
         /\ reqs[s].name = reqs[t].name
         /\ ~Stored(reqs[s].dbAtStart, reqs[s].name)
         /\ ~Stored(reqs[t].dbAtStart, reqs[t].name)
         /\ PokeApi(reqs[s].name).found
         /\ db.trainers # {}) =>
            /\ reqs[s].response.status = 400 \/ reqs[t].response.status = 400
            /\ Cardinality({p \in db.pokemon : SqlEq(p.name, reqs[s].name)}) <= 1

\* C9: when a cleaning pass fails, the stored rows are those from before the
\* call and the caller is told, so that start-up stops short of serving.
C9_FailureAbortsStartup ==
    cleanOutcome = "rolled_back" => (db = dbBefore /\ phase # "serving")

PokemonBefore(id) == CHOOSE q \in dbBefore.pokemon : q.id = id

\* C10 as stated: every Creature row that survives a committed pass has the
\* type2_id it had before the pass.
C10_RepointIsNoOp ==
    cleanOutcome = "committed" =>
        \A p \in db.pokemon : p.type2_id = PokemonBefore(p.id).type2_id

\* C10 as amended: a null type2_id stays null; a type2_id whose Type row is
\* gone after the dedup, or has no name, becomes null; any other type2_id ends
\* on a surviving Type row with the same stored name as the row it referenced,
\* which is that very row when no other surviving Type row has that name.
C10_RepointByName ==
    cleanOutcome = "committed" =>
        \A p \in db.pokemon :
            LET old == PokemonBefore(p.id).type2_id
                kept == {t \in db.types : t.id = old /\ t.name # NULL}
            IN IF old = NoId \/ kept = {}
               THEN p.type2_id = NoId
               ELSE \E t \in db.types :
                       /\ t.id = p.type2_id
                       /\ \A k \in kept :
                             /\ t.name = k.name
                             /\ (\A u \in db.types : u.name = k.name => u.id = k.id)
                                    => t.id = k.id

\* A committed pass has moved a creature's second type to another Type row.
C10_Witness ==
    /\ cleanOutcome = "committed"
    /\ \E p \in db.pokemon :
          /\ PokemonBefore(p.id).type2_id # NoId
          /\ p.type2_id # NoId
          /\ p.type2_id # PokemonBefore(p.id).type2_id

====
